---- MODULE Spec2Model ----
(***************************************************************************)
(* A model of the oh-snap crate (src/src/lib.rs): Snap<T>, a range over an *)
(* Arc<Vec<T>>, with snap (split), merge, chunks, try_unwrap, clone, drop  *)
(* and the unchecked mutable access of as_mut_slice.                       *)
(*                                                                         *)
(* The heap (bufs) holds the Arc allocations: the Vec's elements, the      *)
(* Vec's data pointer and the Arc's strong count.  The views are the Snap  *)
(* values the calling program holds, kept as a bag because clone yields an *)
(* equal value.  A panicking call unwinds: the arguments it took by value  *)
(* are dropped.  last records the latest call and its outcome.             *)
(*                                                                         *)
(* Three programs use the crate.  Spec is any program: any calls in any    *)
(* order.  SpecPieces is a program that makes one buffer and never clones  *)
(* a view; expected holds the elements it expects in the buffer, dropped   *)
(* whether it has let go of a view.  SpecWorkers is a program that splits  *)
(* one buffer and hands each piece to a worker thread that writes through  *)
(* it; workers are the threads and written the elements each has stored.   *)
(***************************************************************************)
EXTENDS Integers, Sequences, FiniteSets, Bags, TLC

VARIABLES bufs, views, elem_size, last, expected, dropped, workers, written

vars == <<bufs, views, elem_size, last, expected, dropped, workers, written>>

\* What only the programs of SpecPieces and SpecWorkers keep.
notes == <<expected, dropped, workers, written>>

\* ------------------------------------------------------------------ bounds
\* Most elements alive at once, in all the Vecs together.
MaxLen == 2
\* Most Snap values the calling program holds at once.
MaxViews == 2
\* Most Arc allocations alive at once.
MaxBufs == 2
\* Width of usize in bits (scaled down; the arithmetic is the same).
UsizeBits == 4

MaxUsize == 2 ^ UsizeBits - 1

BufIds == 1 .. MaxBufs

\* Element values; a zero-sized T has a single value.
Values == IF elem_size = 0 THEN {0} ELSE {0, 1}

\* Elements held by the live allocations of heap h.
RECURSIVE Held(_, _)
Held(h, b) == IF b = 0 THEN 0 ELSE Len(h[b].data) + Held(h, b - 1)

\* The Vecs given to Snap::new while heap h is alive: n zeros; other contents come
\* from the writes.
Vecs(h) == {[i \in 1 .. n |-> 0] : n \in 0 .. MaxLen - Held(h, MaxBufs)}

\* The capacities of a Vec given to Snap::new: exact (vec![0; n], Vec::new()) or with
\* spare room (Vec::with_capacity).
Caps(vec) == {Len(vec), Len(vec) + 1}

\* The offsets and the chunk sizes the claims range over.
Ats == 0 .. MaxLen + 1
ChunkSizes == (0 .. MaxLen) \cup {MaxUsize}

\* ------------------------------------------------------------------ values
NoBuf == [data |-> <<>>, ptr |-> 0, rc |-> 0]

\* NonNull::dangling(): the data pointer of every Vec that owns no memory.
Dangling == 0

\* Where the allocator puts the elements of the Vec in slot b.
Address(b) == b

\* Vec::as_ptr of a Vec of capacity cap: no memory is owned when cap * size_of::<T>() is 0.
vec_as_ptr(b, cap) == IF cap * elem_size = 0 THEN Dangling ELSE Address(b)

FreeSlots(h) == {b \in BufIds : h[b].rc = 0}

LeastFree(h) == CHOOSE b \in FreeSlots(h) : \A c \in FreeSlots(h) : b <= c

\* Arc::new(vec)
arc_new(h, b, vec, cap) ==
    [h EXCEPT ![b] = [data |-> vec, ptr |-> vec_as_ptr(b, cap), rc |-> 1]]

\* Arc::clone that does not count the new reference.
arc_clone_uncounted(h, b) == h

\* Arc::clone: one more strong reference.
arc_clone(h, b) == [h EXCEPT ![b].rc = @ + 1]

\* Drop of an Arc that leaves the reference counted (a leaked handle).
arc_drop_leaked(h, b) == h

\* Drop of an Arc: the allocation is released with the last strong reference.
arc_drop(h, b) == IF h[b].rc = 1 THEN [h EXCEPT ![b] = NoBuf] ELSE [h EXCEPT ![b].rc = @ - 1]

\* Range<usize>::len
len(v) == IF v.start < v.end THEN v.end - v.start ELSE 0

View(b, s, e) == [buf |-> b, start |-> s, end |-> e]

\* What a call returns: res names the outcome, out the Snaps returned, vec the Vec returned.
Ret(res, out, vec, h) == [res |-> res, out |-> out, vec |-> vec, heap |-> h]

\* Snap::new
new(h, b, vec, cap) == Ret("ok", <<View(b, 0, Len(vec))>>, <<>>, arc_new(h, b, vec, cap))

\* snap with at taken as an index of the buffer instead of an offset from range.start.
snap_abs(h, v, at) ==
    IF ~(at \in 0 .. len(v))
    THEN Ret("snap_out_of_range", <<>>, <<>>, arc_drop(h, v.buf))
    ELSE Ret("ok", <<View(v.buf, v.start, at), View(v.buf, at, v.end)>>,
             <<>>, arc_clone(h, v.buf))

\* snap with an offset past the end clamped to the length instead of refused.
snap_clamped(h, v, at) ==
    LET to == IF at > len(v) THEN len(v) ELSE at IN
    Ret("ok",
        <<View(v.buf, v.start, v.start + to), View(v.buf, v.start + to, v.end)>>,
        <<>>, arc_clone(h, v.buf))

\* snap whose left result keeps the whole range of self.
snap_left_whole(h, v, at) ==
    IF ~(at \in 0 .. len(v))
    THEN Ret("snap_out_of_range", <<>>, <<>>, arc_drop(h, v.buf))
    ELSE Ret("ok", <<View(v.buf, v.start, v.end), View(v.buf, v.start + at, v.end)>>,
             <<>>, arc_clone(h, v.buf))

\* Snap::snap
snap(h, v, at) ==
    IF ~(at \in 0 .. len(v))
    THEN Ret("snap_out_of_range", <<>>, <<>>, arc_drop(h, v.buf))
    ELSE Ret("ok",
             <<View(v.buf, v.start, v.start + at), View(v.buf, v.start + at, v.end)>>,
             <<>>, arc_clone(h, v.buf))

\* merge keeping the range of right instead of joining the two ranges.
merge_right_range(h, left, right) ==
    IF h[left.buf].ptr # h[right.buf].ptr
    THEN Ret("different_origins", <<>>, <<>>, arc_drop(arc_drop(h, left.buf), right.buf))
    ELSE IF left.end # right.start
    THEN Ret("non_contiguous", <<>>, <<>>, arc_drop(arc_drop(h, left.buf), right.buf))
    ELSE Ret("ok", <<View(left.buf, right.start, right.end)>>, <<>>, arc_drop(h, right.buf))

\* merge that puts two adjacent Snaps given in the wrong order right by itself.
merge_either_order(h, left, right) ==
    IF h[left.buf].ptr # h[right.buf].ptr
    THEN Ret("different_origins", <<>>, <<>>, arc_drop(arc_drop(h, left.buf), right.buf))
    ELSE IF left.end = right.start
    THEN Ret("ok", <<View(left.buf, left.start, right.end)>>, <<>>, arc_drop(h, right.buf))
    ELSE IF right.end = left.start
    THEN Ret("ok", <<View(left.buf, right.start, left.end)>>, <<>>, arc_drop(h, right.buf))
    ELSE Ret("non_contiguous", <<>>, <<>>, arc_drop(arc_drop(h, left.buf), right.buf))

\* merge that leaves the Arc of right counted instead of dropping it.
merge_right_kept(h, left, right) ==
    IF h[left.buf].ptr # h[right.buf].ptr
    THEN Ret("different_origins", <<>>, <<>>, arc_drop(arc_drop(h, left.buf), right.buf))
    ELSE IF left.end # right.start
    THEN Ret("non_contiguous", <<>>, <<>>, arc_drop(arc_drop(h, left.buf), right.buf))
    ELSE Ret("ok", <<View(left.buf, left.start, right.end)>>, <<>>, h)

\* Snap::merge
merge(h, left, right) ==
    IF h[left.buf].ptr # h[right.buf].ptr
    THEN Ret("different_origins", <<>>, <<>>, arc_drop(arc_drop(h, left.buf), right.buf))
    ELSE IF left.end # right.start
    THEN Ret("non_contiguous", <<>>, <<>>, arc_drop(arc_drop(h, left.buf), right.buf))
    ELSE Ret("ok", <<View(left.buf, left.start, right.end)>>, <<>>, arc_drop(h, right.buf))

\* Unwinding out of chunks drops the Vec of chunks collected so far.
RECURSIVE drop_all(_, _)
drop_all(h, seq) == IF seq = <<>> THEN h ELSE drop_all(arc_drop(h, Head(seq).buf), Tail(seq))

\* The while loop of Snap::chunks: self is split at chunk_size while it is longer.
RECURSIVE chunks_loop(_, _, _, _)
chunks_loop(h, self, acc, chunk_size) ==
    IF len(self) > chunk_size
    THEN LET s == snap(h, self, chunk_size) IN
         IF s.res # "ok"
         THEN Ret(s.res, <<>>, <<>>, drop_all(s.heap, acc))
         ELSE chunks_loop(s.heap, s.out[2], Append(acc, s.out[1]), chunk_size)
    ELSE Ret("ok", Append(acc, self), <<>>, h)

\* chunks that takes a chunk size of 0 for a chunk size of 1 instead of failing.
chunks_min_one(h, v, chunk_size, overflow_checks) ==
    chunks_loop(h, v, <<>>, IF chunk_size = 0 THEN 1 ELSE chunk_size)

\* Snap::chunks. The capacity (self.len() + chunk_size - 1) / chunk_size is computed
\* first, in usize: with overflow checks (the debug profile) a sum past usize::MAX or a
\* difference below 0 panics, without them it wraps; a division by 0 always panics.
chunks(h, v, chunk_size, overflow_checks) ==
    LET sum == len(v) + chunk_size
        wrapped == sum % (MaxUsize + 1)
    IN  IF overflow_checks /\ sum > MaxUsize
        THEN Ret("add_overflow", <<>>, <<>>, arc_drop(h, v.buf))
        ELSE IF overflow_checks /\ wrapped = 0
        THEN Ret("subtract_overflow", <<>>, <<>>, arc_drop(h, v.buf))
        ELSE IF chunk_size = 0
        THEN Ret("divide_by_zero", <<>>, <<>>, arc_drop(h, v.buf))
        ELSE chunks_loop(h, v, <<>>, chunk_size)

\* The bounds check of &self.buf[self.range.clone()], made by as_slice and as_mut_slice.
slice_in_bounds(h, v) == v.start <= v.end /\ v.end <= Len(h[v.buf].data)

\* Snap::as_slice
as_slice(h, v) ==
    IF slice_in_bounds(h, v)
    THEN [res |-> "ok", vec |-> SubSeq(h[v.buf].data, v.start + 1, v.end)]
    ELSE [res |-> "slice_out_of_range", vec |-> <<>>]

\* Snap::get with a position: as_slice, then the bounds-checked get of the slice.
get(h, v, index) ==
    LET s == as_slice(h, v) IN
    IF s.res # "ok"
    THEN [res |-> s.res, val |-> <<>>]
    ELSE IF index < Len(s.vec)
    THEN [res |-> "some", val |-> <<s.vec[index + 1]>>]
    ELSE [res |-> "none", val |-> <<>>]

\* try_unwrap that takes the elements whether or not the Arc is shared.
try_unwrap_shared(h, v) == Ret("ok", <<>>, h[v.buf].data, arc_drop(h, v.buf))

\* try_unwrap giving back the elements of the calling Snap's range only.
try_unwrap_range(h, v) ==
    IF h[v.buf].rc = 1
    THEN Ret("ok", <<>>, as_slice(h, v).vec, [h EXCEPT ![v.buf] = NoBuf])
    ELSE Ret("err", <<View(v.buf, v.start, v.end)>>, <<>>, h)

\* try_unwrap whose Err is a Snap of the whole buffer instead of the caller's range.
try_unwrap_err_whole(h, v) ==
    IF h[v.buf].rc = 1
    THEN Ret("ok", <<>>, h[v.buf].data, [h EXCEPT ![v.buf] = NoBuf])
    ELSE Ret("err", <<View(v.buf, 0, Len(h[v.buf].data))>>, <<>>, h)

\* Snap::try_unwrap: Arc::try_unwrap gives the Vec when the strong count is 1.
try_unwrap(h, v) ==
    IF h[v.buf].rc = 1
    THEN Ret("ok", <<>>, h[v.buf].data, [h EXCEPT ![v.buf] = NoBuf])
    ELSE Ret("err", <<View(v.buf, v.start, v.end)>>, <<>>, h)

\* Clone for Snap
clone(h, v) == Ret("ok", <<View(v.buf, v.start, v.end)>>, <<>>, arc_clone(h, v.buf))

\* Drop of a Snap: its Arc is dropped.
drop(h, v) == Ret("ok", <<>>, <<>>, arc_drop(h, v.buf))

\* as_mut_slice giving the elements of the whole buffer instead of those of the range.
as_mut_slice_whole(h, v) ==
    IF slice_in_bounds(h, v)
    THEN [res |-> "ok", ptr |-> 0, len |-> Len(h[v.buf].data)]
    ELSE [res |-> "slice_out_of_range", ptr |-> 0, len |-> 0]

\* Snap::as_mut_slice: slice::from_raw_parts_mut(ptr, len), ptr counted in elements
\* from the start of the Vec's data; the place of the range is taken by indexing the
\* Vec, which checks the bounds.
as_mut_slice(h, v) ==
    IF slice_in_bounds(h, v)
    THEN [res |-> "ok", ptr |-> v.start, len |-> len(v)]
    ELSE [res |-> "slice_out_of_range", ptr |-> 0, len |-> 0]

\* *v.get_mut(index).unwrap_or(..) = x: as_mut_slice takes the elements of the range
\* out of the shared Vec and the store goes to element range.start + index.
get_mut(h, v, index, x) ==
    LET s == as_mut_slice(h, v) IN
    IF s.res # "ok"
    THEN Ret(s.res, <<>>, <<>>, h)
    ELSE IF index >= s.len
    THEN Ret("none", <<>>, <<>>, h)
    ELSE Ret("ok", <<>>, <<>>, [h EXCEPT ![v.buf].data[s.ptr + index + 1] = x])

\* The arguments the calls on Snap v are made with: every offset, chunk size and index
\* up to its length, one past it (larger ones have the same outcome), and usize::MAX.
OffsetsFor(v) == 0 .. len(v) + 1
ChunkSizesFor(v) == (0 .. len(v)) \cup {MaxUsize}
IndicesFor(v) == 0 .. len(v)

AddAll(bag, seq) == bag (+) [x \in {seq[i] : i \in 1 .. Len(seq)} |->
                               Cardinality({i \in 1 .. Len(seq) : seq[i] = x})]

One(v) == SetToBag({v})

Live == BagToSet(views)

\* The latest call: its name and its outcome.
Record(op, r) == [op |-> op, res |-> r.res]

\* ----------------------------------------------------------------- actions
Init ==
    /\ elem_size \in {0, 1}
    /\ bufs = [b \in BufIds |-> NoBuf]
    /\ views = EmptyBag
    /\ last = Record("init", Ret("ok", <<>>, <<>>, bufs))
    /\ expected = <<>>
    /\ dropped = FALSE
    /\ workers = <<>>
    /\ written = <<>>

DoNew ==
    /\ FreeSlots(bufs) # {}
    /\ BagCardinality(views) < MaxViews
    /\ \E vec \in Vecs(bufs) :
       \E cap \in Caps(vec) :
         LET r == new(bufs, LeastFree(bufs), vec, cap) IN
         /\ bufs' = r.heap
         /\ views' = AddAll(views, r.out)
         /\ last' = Record("new", r)
    /\ UNCHANGED elem_size

DoSnap ==
    \E v \in Live :
      \E at \in OffsetsFor(v) :
      LET r == snap(bufs, v, at) IN
      /\ BagCardinality(views) - 1 + Len(r.out) <= MaxViews
      /\ bufs' = r.heap
      /\ views' = AddAll(views (-) One(v), r.out)
      /\ last' = Record("snap", r)
      /\ UNCHANGED elem_size

DoMerge ==
    \E left \in Live, right \in Live :
      /\ left = right => CopiesIn(left, views) >= 2
      /\ LET r == merge(bufs, left, right) IN
         /\ bufs' = r.heap
         /\ views' = AddAll((views (-) One(left)) (-) One(right), r.out)
         /\ last' = Record("merge", r)
      /\ UNCHANGED elem_size

DoChunks ==
    \E v \in Live, overflow_checks \in BOOLEAN :
      \E chunk_size \in ChunkSizesFor(v) :
      LET r == chunks(bufs, v, chunk_size, overflow_checks) IN
      /\ BagCardinality(views) - 1 + Len(r.out) <= MaxViews
      /\ bufs' = r.heap
      /\ views' = AddAll(views (-) One(v), r.out)
      /\ last' = Record("chunks", r)
      /\ UNCHANGED elem_size

DoTryUnwrap ==
    \E v \in Live :
      LET r == try_unwrap(bufs, v) IN
      /\ bufs' = r.heap
      /\ views' = AddAll(views (-) One(v), r.out)
      /\ last' = Record("try_unwrap", r)
      /\ UNCHANGED elem_size

DoClone ==
    /\ BagCardinality(views) < MaxViews
    /\ \E v \in Live :
         LET r == clone(bufs, v) IN
         /\ bufs' = r.heap
         /\ views' = AddAll(views, r.out)
         /\ last' = Record("clone", r)
    /\ UNCHANGED elem_size

DoDrop ==
    \E v \in Live :
      LET r == drop(bufs, v) IN
      /\ bufs' = r.heap
      /\ views' = views (-) One(v)
      /\ last' = Record("drop", r)
      /\ UNCHANGED elem_size

DoGetMut ==
    \E v \in Live, x \in Values :
      \E index \in IndicesFor(v) :
      LET r == get_mut(bufs, v, index, x) IN
      /\ bufs' = r.heap
      /\ last' = Record("get_mut", r)
      /\ UNCHANGED <<views, elem_size>>

Next ==
    \/ DoNew /\ UNCHANGED notes
    \/ DoSnap /\ UNCHANGED notes
    \/ DoMerge /\ UNCHANGED notes
    \/ DoChunks /\ UNCHANGED notes
    \/ DoTryUnwrap /\ UNCHANGED notes
    \/ DoClone /\ UNCHANGED notes
    \/ DoDrop /\ UNCHANGED notes
    \/ DoGetMut /\ UNCHANGED notes

Spec == Init /\ [][Next]_vars

\* ------------------------------------------- a program that never clones
\* One Snap::new, at the start.
PiecesNew ==
    /\ last.op = "init"
    /\ DoNew
    /\ expected' = bufs'[LeastFree(bufs)].data
    /\ UNCHANGED <<dropped, workers, written>>

\* A call that fails unwinds and drops the Snaps it took.
PiecesSnap ==
    /\ DoSnap
    /\ dropped' = (dropped \/ last'.res # "ok")
    /\ UNCHANGED <<expected, workers, written>>

PiecesMerge ==
    /\ DoMerge
    /\ dropped' = (dropped \/ last'.res # "ok")
    /\ UNCHANGED <<expected, workers, written>>

PiecesChunks ==
    /\ DoChunks
    /\ dropped' = (dropped \/ last'.res # "ok")
    /\ UNCHANGED <<expected, workers, written>>

PiecesDrop ==
    /\ DoDrop
    /\ dropped' = TRUE
    /\ UNCHANGED <<expected, workers, written>>

\* A write through a piece: the program expects it at element range.start + index.
PiecesGetMut ==
    \E v \in Live, x \in Values :
      \E index \in IndicesFor(v) :
      LET r == get_mut(bufs, v, index, x) IN
      /\ bufs' = r.heap
      /\ last' = Record("get_mut", r)
      /\ expected' = IF r.res = "ok"
                      THEN [expected EXCEPT ![v.start + index + 1] = x]
                      ELSE expected
      /\ UNCHANGED <<views, elem_size, dropped, workers, written>>

PiecesTryUnwrap ==
    /\ DoTryUnwrap
    /\ UNCHANGED notes

NextPieces ==
    \/ PiecesNew
    \/ PiecesSnap
    \/ PiecesMerge
    \/ PiecesChunks
    \/ PiecesDrop
    \/ PiecesGetMut
    \/ PiecesTryUnwrap

SpecPieces == Init /\ [][NextPieces]_vars

\* ------------------------------- a program that hands the pieces to workers
\* The Snaps of a bag from left to right: by the start of the range, then by its end.
RECURSIVE InOrder(_)
InOrder(bag) ==
    IF bag = EmptyBag
    THEN <<>>
    ELSE LET first == CHOOSE u \in BagToSet(bag) : \A w \in BagToSet(bag) :
                          u.start < w.start \/ (u.start = w.start /\ u.end <= w.end)
         IN  <<first>> \o InOrder(bag (-) SetToBag({first}))

\* The one buffer of the program.
TheBuf == CHOOSE b \in BufIds : bufs[b].rc > 0

\* One Snap::new, at the start.
WorkersNew ==
    /\ last.op = "init"
    /\ DoNew
    /\ expected' = bufs'[LeastFree(bufs)].data
    /\ UNCHANGED <<dropped, workers, written>>

\* The splitting, before the workers are started: by snap, repeated, and by chunks.
WorkersSnap ==
    /\ workers = <<>>
    /\ PiecesSnap

WorkersChunks ==
    /\ workers = <<>>
    /\ PiecesChunks

\* Every piece is moved into a thread of its own, which is to store x at each position
\* of its piece, from the first to the last; pc is the position of its next store.
Hand ==
    /\ workers = <<>>
    /\ Live # {}
    /\ LET pieces == InOrder(views) IN
       \E xs \in [1 .. Len(pieces) -> Values] :
         workers' = [w \in 1 .. Len(pieces) |-> [piece |-> pieces[w], x |-> xs[w], pc |-> 0]]
    /\ written' = [k \in 1 .. Len(bufs[TheBuf].data) |-> {}]
    /\ expected' = bufs[TheBuf].data
    /\ last' = [op |-> "hand", res |-> "ok"]
    /\ UNCHANGED <<bufs, views, elem_size, dropped>>

\* One store of one worker: *piece.get_mut(pc).unwrap() = x. The threads take their
\* steps in any order.
Work ==
    \E w \in 1 .. Len(workers) :
      LET wk == workers[w]
          s == as_mut_slice(bufs, wk.piece)
          r == get_mut(bufs, wk.piece, wk.pc, wk.x)
      IN  /\ wk.pc < len(wk.piece)
          /\ bufs' = r.heap
          /\ workers' = [workers EXCEPT ![w].pc = @ + 1]
          /\ written' = IF r.res = "ok"
                         THEN [written EXCEPT ![s.ptr + wk.pc + 1] = @ \cup {w}]
                         ELSE written
          /\ last' = Record("get_mut", r)
          /\ UNCHANGED <<views, elem_size, expected, dropped>>

AllDone == \A w \in 1 .. Len(workers) : workers[w].pc >= len(workers[w].piece)

\* The threads are joined and give their pieces back.
Join ==
    /\ workers # <<>>
    /\ AllDone
    /\ workers' = <<>>
    /\ written' = <<>>
    /\ expected' = bufs[TheBuf].data
    /\ last' = [op |-> "join", res |-> "ok"]
    /\ UNCHANGED <<bufs, views, elem_size, dropped>>

NextWorkers ==
    \/ WorkersNew
    \/ WorkersSnap
    \/ WorkersChunks
    \/ Hand
    \/ Work
    \/ Join

SpecWorkers == Init /\ [][NextWorkers]_vars

\* ------------------------------------------------------ helpers of the claims
\* The pairs of live Snaps a call can take by value.
Pairs == {p \in Live \X Live : p[1] = p[2] => CopiesIn(p[1], views) >= 2}

\* The live Snaps over the allocation of v, v not counted.
Siblings(v) == BagCardinality([w \in {u \in Live : u.buf = v.buf} |-> views[w]]) - 1

\* The number of live Snaps over allocation b.
Holders(b) == BagCardinality([w \in {u \in Live : u.buf = b} |-> views[w]])

\* The live Snaps over allocation b whose range holds element k (counted from 0).
Covering(b, k) ==
    BagCardinality([w \in {u \in Live : u.buf = b /\ u.start <= k /\ k < u.end}
                      |-> views[w]])

\* Heap h after k Snaps over allocation b were dropped.
RECURSIVE DropN(_, _, _)
DropN(h, b, k) == IF k = 0 THEN h ELSE DropN(arc_drop(h, b), b, k - 1)

\* Snap::merge applied left to right: acc with the first of rest, the result with the next.
RECURSIVE merge_all(_, _, _)
merge_all(h, acc, rest) ==
    IF rest = <<>>
    THEN Ret("ok", <<acc>>, <<>>, h)
    ELSE LET m == merge(h, acc, Head(rest)) IN
         IF m.res # "ok" THEN m ELSE merge_all(m.heap, m.out[1], Tail(rest))

\* The stores of worker wk from position i on, one after another.
RECURSIVE run_worker(_, _, _)
run_worker(h, wk, i) ==
    IF i >= len(wk.piece)
    THEN h
    ELSE run_worker(get_mut(h, wk.piece, i, wk.x).heap, wk, i + 1)

\* The workers run to the end one after another, in the order given.
RECURSIVE run_in_order(_, _)
run_in_order(h, order) ==
    IF order = <<>>
    THEN h
    ELSE run_in_order(run_worker(h, workers[Head(order)], 0), Tail(order))

\* The orders the workers can run in one after another.
Orders ==
    {o \in [1 .. Len(workers) -> 1 .. Len(workers)] :
        \A i, j \in 1 .. Len(workers) : o[i] = o[j] => i = j}

Ceil(a, b) == (a + b - 1) \div b

\* -------------------------------------------------------------------- claims

\* C1: for every view v and every offset at with 0 <= at <= v.len(), snap(v, at)
\* succeeds and merging its two results in order succeeds and gives a view over the
\* same buffer with exactly v's range, hence v's contents; the heap is as before.
C1_SplitMergeRoundTrip ==
    \A v \in Live : \A at \in 0 .. len(v) :
        LET s == snap(bufs, v, at) IN
        /\ s.res = "ok"
        /\ Len(s.out) = 2
        /\ LET m == merge(s.heap, s.out[1], s.out[2]) IN
           /\ m.res = "ok"
           /\ m.out = <<v>>
           /\ m.heap = bufs
           /\ as_slice(m.heap, m.out[1]) = as_slice(bufs, v)

\* A merge gave back a non-empty fragment view (one that starts inside its buffer),
\* the only view of its buffer again.
C1_Witness ==
    /\ last.op = "merge"
    /\ last.res = "ok"
    /\ \E v \in Live : v.start > 0 /\ len(v) > 0 /\ Siblings(v) = 0

\* C2: for every view v = [start, end) and every at <= v.len(), snap(v, at) returns
\* left = [start, start + at) and right = [start + at, end), both over v's buffer; at
\* counts from v's start; left has at elements, right the rest, and the elements of
\* left followed by those of right are the elements of v.
C2_SnapRanges ==
    \A v \in Live : \A at \in Ats \cup OffsetsFor(v) :
        at <= len(v) =>
            LET s == snap(bufs, v, at) IN
            /\ s.res = "ok"
            /\ Len(s.out) = 2
            /\ s.out[1] = [buf |-> v.buf, start |-> v.start, end |-> v.start + at]
            /\ s.out[2] = [buf |-> v.buf, start |-> v.start + at, end |-> v.end]
            /\ len(s.out[1]) = at
            /\ len(s.out[2]) = len(v) - at
            /\ as_slice(bufs, v).res = "ok" =>
                   as_slice(s.heap, s.out[1]).vec \o as_slice(s.heap, s.out[2]).vec
                       = as_slice(bufs, v).vec

\* After a snap of a fragment view at an offset >= 1: a non-empty left view that starts
\* inside the buffer, and a right view that starts where it ends.
C2_Witness ==
    /\ last.op = "snap"
    /\ last.res = "ok"
    /\ \E p \in Pairs :
         /\ p[1].buf = p[2].buf
         /\ p[1].start > 0
         /\ len(p[1]) > 0
         /\ p[1].end = p[2].start

C4_DifferentOriginsRejected ==
    \A p \in Pairs :
        p[1].buf # p[2].buf => merge(bufs, p[1], p[2]).res = "different_origins"

\* C5: for every view v and every at > v.len(), snap(v, at) fails with the out-of-range
\* error and returns no view: at is checked against the view's length, not against the
\* buffer's, and is not clamped.
C5_SnapOutOfRange ==
    \A v \in Live : \A at \in Ats \cup OffsetsFor(v) \cup {MaxUsize} :
        at > len(v) =>
            LET s == snap(bufs, v, at) IN
            /\ s.res = "snap_out_of_range"
            /\ s.out = <<>>

\* A snap has left a non-empty fragment view whose length is below an offset that is
\* still inside the buffer, and the snap of it there fails.
C5_Witness ==
    \E v \in Live : \E at \in Ats :
        /\ last.op = "snap"
        /\ len(v) < at
        /\ at <= Len(bufs[v.buf].data)
        /\ len(v) >= 1
        /\ snap(bufs, v, at).res = "snap_out_of_range"

\* C6: try_unwrap on a view succeeds iff no other live view references the same
\* buffer at the moment of the call.
C6_TryUnwrapIffSole ==
    \A v \in Live : (try_unwrap(bufs, v).res = "ok") <=> (Siblings(v) = 0)

\* A try_unwrap failed, and two views with different ranges share a buffer.
C6_Witness ==
    /\ last.op = "try_unwrap"
    /\ last.res = "err"
    /\ \E p \in Pairs : p[1].buf = p[2].buf /\ p[1] # p[2]

\* C7: when try_unwrap succeeds, the Vec returned is the whole backing buffer with all
\* its elements as written, whatever the range of the calling view.
C7_TryUnwrapWholeBuffer ==
    \A v \in Live :
        LET r == try_unwrap(bufs, v) IN
        r.res = "ok" =>
            /\ r.vec = bufs[v.buf].data
            /\ r.out = <<>>
            /\ r.heap[v.buf] = NoBuf

\* A fragment view has become the last reference (its sibling was dropped), and its
\* try_unwrap gives the whole buffer, with an element written outside the fragment.
C7_Witness ==
    \E v \in Live :
        LET r == try_unwrap(bufs, v) IN
        /\ v.start > 0
        /\ r.res = "ok"
        /\ len(v) < Len(r.vec)
        /\ \E i \in 1 .. Len(r.vec) : i <= v.start /\ r.vec[i] = 1
        /\ last.op = "drop"

\* C8: when try_unwrap fails, it returns a view with the buffer and range of the view
\* it was called on, the heap (contents and reference counts) and the other views are
\* unchanged, and after the siblings are dropped try_unwrap of the returned view
\* succeeds with the buffer's contents.
C8_TryUnwrapErrUnchanged ==
    \A v \in Live :
        LET r == try_unwrap(bufs, v) IN
        r.res = "err" =>
            /\ r.out = <<v>>
            /\ r.vec = <<>>
            /\ r.heap = bufs
            /\ AddAll(views (-) One(v), r.out) = views
            /\ LET later == try_unwrap(DropN(r.heap, v.buf, Siblings(v)), r.out[1]) IN
               later.res = "ok" /\ later.vec = bufs[v.buf].data

\* A try_unwrap failed, and a fragment view with a live sibling is still held.
C8_Witness ==
    /\ last.op = "try_unwrap"
    /\ last.res = "err"
    /\ \E v \in Live :
         /\ v.start > 0
         /\ Siblings(v) >= 1
         /\ try_unwrap(bufs, v).out = <<v>>

\* C9: for every view v and every chunk_size >= 1, chunks(v, chunk_size) returns views
\* over v's buffer, the first starting at v.start, the last ending at v.end, each ending
\* where the next starts, and merging them left to right succeeds and gives v's range.
C9_ChunksReassemble ==
    \A v \in Live : \A chunk_size \in ChunkSizes \ {0} : \A overflow_checks \in BOOLEAN :
        LET r == chunks(bufs, v, chunk_size, overflow_checks)
            n == Len(r.out)
        IN  /\ r.res = "ok"
            /\ n >= 1
            /\ r.out[1].start = v.start
            /\ r.out[n].end = v.end
            /\ \A i \in 1 .. n : r.out[i].buf = v.buf
            /\ \A i \in 1 .. n - 1 : r.out[i].end = r.out[i + 1].start
            /\ LET m == merge_all(r.heap, r.out[1], Tail(r.out)) IN
               m.res = "ok" /\ m.out = <<v>>

\* C10: for every view v, the empty one included, and every chunk_size >= 1, chunks
\* returns ceil(v.len() / chunk_size) views.
C10_ChunkCount ==
    \A v \in Live : \A chunk_size \in ChunkSizes \ {0} : \A overflow_checks \in BOOLEAN :
        LET r == chunks(bufs, v, chunk_size, overflow_checks) IN
        /\ r.res = "ok"
        /\ Len(r.out) = Ceil(len(v), chunk_size)

\* What chunks does return for chunk_size >= 1 when the capacity computation does not
\* panic (no overflow checks, or len + chunk_size within usize): adjacent views from
\* v.start to v.end that merge back into v, one view for an empty v and
\* ceil(len / chunk_size) views otherwise.
ChunksUnlessOverflow ==
    \A v \in Live : \A chunk_size \in ChunkSizes \ {0} : \A overflow_checks \in BOOLEAN :
        (~overflow_checks \/ len(v) + chunk_size <= MaxUsize) =>
            LET r == chunks(bufs, v, chunk_size, overflow_checks)
                n == Len(r.out)
            IN  /\ r.res = "ok"
                /\ n = IF len(v) = 0 THEN 1 ELSE Ceil(len(v), chunk_size)
                /\ r.out[1].start = v.start
                /\ r.out[n].end = v.end
                /\ \A i \in 1 .. n : r.out[i].buf = v.buf
                /\ \A i \in 1 .. n - 1 :
                       r.out[i].end = r.out[i + 1].start /\ len(r.out[i]) = chunk_size
                /\ LET m == merge_all(r.heap, r.out[1], Tail(r.out)) IN
                   m.res = "ok" /\ m.out = <<v>> /\ m.heap = bufs

\* C11: for every view v, the empty one included, chunks(v, 0) fails: the capacity
\* computation panics (division by zero, or the subtraction below 0 with overflow
\* checks) before the splitting loop is entered, and no list of views is returned.
C11_ChunksZeroRejected ==
    \A v \in Live : \A overflow_checks \in BOOLEAN :
        LET r == chunks(bufs, v, 0, overflow_checks) IN
        /\ r.res \in {"divide_by_zero", "subtract_overflow"}
        /\ r.out = <<>>
        /\ r.heap = arc_drop(bufs, v.buf)

\* A chunks(0) has failed with the division by zero, and an empty view is still held,
\* whose chunks(0) fails as well: by the division without overflow checks, by the
\* subtraction with them.
C11_Witness ==
    /\ last.op = "chunks"
    /\ last.res = "divide_by_zero"
    /\ \E v \in Live :
         /\ len(v) = 0
         /\ chunks(bufs, v, 0, FALSE).res = "divide_by_zero"
         /\ chunks(bufs, v, 0, TRUE).res = "subtract_overflow"

\* C12: a write through a view v at relative index i < v.len() succeeds and changes
\* exactly element v.start + i of v's buffer: get(i) on v reads the new value, so does
\* every other view of the buffer that covers v.start + i, at its own relative index,
\* and every other element of every buffer is as before.
C12_WriteAliasing ==
    \A v \in Live : \A i \in 0 .. len(v) - 1 : \A x \in Values :
        LET w == get_mut(bufs, v, i, x) IN
        /\ w.res = "ok"
        /\ get(w.heap, v, i) = [res |-> "some", val |-> <<x>>]
        /\ \A u \in Live :
               (u.buf = v.buf /\ u.start <= v.start + i /\ v.start + i < u.end) =>
                   get(w.heap, u, v.start + i - u.start) = [res |-> "some", val |-> <<x>>]
        /\ \A b \in BufIds :
               /\ Len(w.heap[b].data) = Len(bufs[b].data)
               /\ w.heap[b].rc = bufs[b].rc
               /\ \A k \in 1 .. Len(bufs[b].data) :
                      (b # v.buf \/ k # v.start + i + 1) => w.heap[b].data[k] = bufs[b].data[k]

\* What a write does for a view whose range lies within its buffer: the claim's
\* effect. For a view whose range ends past its buffer (the result of a merge across two
\* buffers of a zero-sized T) the write and the reads panic on the slice bounds.
WriteWithinBuffer ==
    \A v \in Live : \A i \in 0 .. len(v) - 1 : \A x \in Values :
        LET w == get_mut(bufs, v, i, x) IN
        IF slice_in_bounds(bufs, v)
        THEN /\ w.res = "ok"
             /\ get(w.heap, v, i) = [res |-> "some", val |-> <<x>>]
             /\ \A u \in Live :
                    (u.buf = v.buf /\ u.start <= v.start + i /\ v.start + i < u.end
                       /\ slice_in_bounds(bufs, u)) =>
                        get(w.heap, u, v.start + i - u.start)
                            = [res |-> "some", val |-> <<x>>]
             /\ \A b \in BufIds :
                    /\ Len(w.heap[b].data) = Len(bufs[b].data)
                    /\ w.heap[b].rc = bufs[b].rc
                    /\ \A k \in 1 .. Len(bufs[b].data) :
                           (b # v.buf \/ k # v.start + i + 1) =>
                               w.heap[b].data[k] = bufs[b].data[k]
        ELSE /\ w.res = "slice_out_of_range"
             /\ w.heap = bufs
             /\ get(bufs, v, i).res = "slice_out_of_range"

\* C13: after any sequence of new, snap, merge, chunks, clone, drop and try_unwrap,
\* successful or failing, every live view has
\* 0 <= range.start <= range.end <= length of its buffer.
C13_RangeWithinBuffer ==
    \A v \in Live :
        /\ 0 <= v.start
        /\ v.start <= v.end
        /\ v.end <= Len(bufs[v.buf].data)

\* What does hold of the ranges: start <= end for every live view, and end within the
\* buffer when T is not zero-sized (the buffers that merge takes for one another are
\* then all empty).
RangeOrdered ==
    \A v \in Live :
        /\ 0 <= v.start
        /\ v.start <= v.end
        /\ elem_size # 0 => v.end <= Len(bufs[v.buf].data)

\* No step changes the length of a buffer that stays allocated.
BufferLengthKept ==
    [][\A b \in BufIds :
          (bufs[b].rc > 0 /\ bufs'[b].rc > 0) => Len(bufs'[b].data) = Len(bufs[b].data)]_vars

\* C14: in every reachable state the strong count of each buffer is the number of live
\* views over it, and a buffer with no view is released; a snap and a clone add one to
\* the count of the view's buffer, a drop takes one off and releases the buffer only
\* when it was the last, and a try_unwrap releases it only when it succeeds.
C14_RefCountIsViews ==
    /\ \A b \in BufIds :
          /\ bufs[b].rc = Holders(b)
          /\ bufs[b].rc = 0 => bufs[b] = NoBuf
    /\ \A v \in Live :
          LET rc == bufs[v.buf].rc
              d == drop(bufs, v).heap
              t == try_unwrap(bufs, v)
          IN  /\ \A at \in 0 .. len(v) : snap(bufs, v, at).heap[v.buf].rc = rc + 1
              /\ clone(bufs, v).heap[v.buf].rc = rc + 1
              /\ d[v.buf].rc = rc - 1
              /\ (d[v.buf] = NoBuf) <=> (rc = 1)
              /\ rc > 1 => d[v.buf].data = bufs[v.buf].data
              /\ (t.heap[v.buf] = NoBuf) <=> (t.res = "ok")
              /\ t.res = "err" => t.heap[v.buf].rc = rc

\* A clone was made of a fragment view left by a snap and a drop: two equal views, and
\* a count of 2.
C14_Witness ==
    /\ last.op = "clone"
    /\ \E v \in Live :
         /\ v.start > 0
         /\ CopiesIn(v, views) = 2
         /\ bufs[v.buf].rc = 2

\* C15: for every view v with at least one element and every offset at <= v.len(),
\* merging the two results of snap(v, at) in swapped order, merge(right, left), fails
\* with the non-contiguous error and returns no view; for an empty view the two results
\* are equal views, each adjacent to the other, and the merge gives v back.
C15_SwappedMergeFails ==
    \A v \in Live : \A at \in 0 .. len(v) :
        LET s == snap(bufs, v, at)
            m == merge(s.heap, s.out[2], s.out[1])
        IN  IF len(v) >= 1
            THEN m.res = "non_contiguous" /\ m.out = <<>>
            ELSE m.res = "ok" /\ m.out = <<v>> /\ s.out[1] = s.out[2]

\* A snap has left two non-empty views of one buffer, the second starting at the end
\* of the first, and merging them second first fails.
C15_Witness ==
    /\ last.op = "snap"
    /\ last.res = "ok"
    /\ \E p \in Pairs :
         /\ p[1].buf = p[2].buf
         /\ len(p[1]) >= 1
         /\ len(p[2]) >= 1
         /\ p[1].end = p[2].start
         /\ merge(bufs, p[2], p[1]).res = "non_contiguous"

\* C15 as stated: for every view v, an empty one too, the swapped merge of the results
\* of snap(v, at) fails with the non-contiguous error.
C15_SwappedMergeFailsAlways ==
    \A v \in Live : \A at \in 0 .. len(v) :
        LET s == snap(bufs, v, at) IN
        merge(s.heap, s.out[2], s.out[1]).res = "non_contiguous"

\* C16: for every view v = [start, end) and every position i, get(v, i) returns the
\* element start + i of the buffer when i < v.len() and None, without failing, when
\* i >= v.len(), also where start + i is still inside the buffer.
C16_GetRelative ==
    \A v \in Live : \A i \in Ats \cup {MaxUsize} :
        LET g == get(bufs, v, i) IN
        IF i < len(v)
        THEN /\ g.res = "some"
             /\ g.val = <<bufs[v.buf].data[v.start + i + 1]>>
        ELSE /\ g.res = "none"
             /\ g.val = <<>>

\* What get does: the claim's result for a view whose range lies within its buffer, and
\* a panic on the slice bounds, at every position, for a view whose range ends past its
\* buffer (the result of a merge across two buffers of a zero-sized T).
GetWithinBuffer ==
    \A v \in Live : \A i \in Ats \cup {MaxUsize} :
        LET g == get(bufs, v, i) IN
        IF ~slice_in_bounds(bufs, v)
        THEN g.res = "slice_out_of_range"
        ELSE IF i < len(v)
        THEN g.res = "some" /\ g.val = <<bufs[v.buf].data[v.start + i + 1]>>
        ELSE g.res = "none" /\ g.val = <<>>

\* C17: a successful merge(left, right) takes one off the reference count of right's
\* buffer, which for two views of one buffer is the buffer of both: two references
\* become one. No other count changes, and the count is again the number of live views.
C17_MergeDropsOneReference ==
    \A p \in Pairs :
        LET m == merge(bufs, p[1], p[2]) IN
        m.res = "ok" =>
            /\ m.heap[p[2].buf].rc = bufs[p[2].buf].rc - 1
            /\ \A b \in BufIds \ {p[2].buf} : m.heap[b] = bufs[b]
            /\ p[1].buf = p[2].buf => m.heap[p[1].buf].rc = Holders(p[1].buf) - 1

\* A merge has put a buffer of one or more elements back into one whole view, the only
\* view held: its count, 2 before the merge, is 1.
C17_Witness ==
    /\ last.op = "merge"
    /\ last.res = "ok"
    /\ elem_size = 1
    /\ BagCardinality(views) = 1
    /\ \E v \in Live :
         /\ v.start = 0
         /\ len(v) >= 1
         /\ v.end = Len(bufs[v.buf].data)
         /\ bufs[v.buf].rc = 1

\* C17 as stated: a successful merge of two views of a buffer leaves the buffer's
\* reference count as it was before the merge.
C17_MergeCountUnchanged ==
    \A p \in Pairs :
        LET m == merge(bufs, p[1], p[2]) IN
        (p[1].buf = p[2].buf /\ m.res = "ok") =>
            m.heap[p[1].buf].rc = bufs[p[1].buf].rc

\* C18: in a program that makes one buffer with Snap::new and never clones a view,
\* after any snaps, merges, chunks and drops no element of the buffer lies in two live
\* views, and while no view has been dropped (by drop or by a failing call) every
\* element lies in exactly one live view and every live view lies within the buffer.
C18_PiecesDisjoint ==
    \A b \in BufIds :
        bufs[b].rc > 0 =>
            /\ \A k \in 0 .. MaxLen + 1 : Covering(b, k) <= 1
            /\ ~dropped =>
                   /\ \A k \in 0 .. Len(bufs[b].data) - 1 : Covering(b, k) = 1
                   /\ \A v \in Live :
                          v.buf = b => v.start <= v.end /\ v.end <= Len(bufs[b].data)

\* chunks has cut a buffer of two or more elements into non-empty pieces and nothing
\* has been dropped.
C18_Witness ==
    /\ last.op = "chunks"
    /\ last.res = "ok"
    /\ ~dropped
    /\ BagCardinality(views) >= 2
    /\ \A v \in Live : len(v) >= 1

\* C20: in a program that makes one buffer with Snap::new(seq) and never clones,
\* whatever snaps, chunks, merges, drops and writes it has made: a view that is the only
\* one left can be unwrapped; any live view can be once the others are dropped; and
\* while nothing has been dropped, when the live views merge from left to right into
\* one view, it is the view of the whole buffer and it can be unwrapped. The Vec
\* returned has the length of seq and the elements of seq with the writes applied.
C20_Reclaimable ==
    /\ \A v \in Live :
          LET alone == try_unwrap(DropN(bufs, v.buf, Siblings(v)), v) IN
          /\ alone.res = "ok"
          /\ alone.vec = expected
          /\ BagCardinality(views) = 1 => try_unwrap(bufs, v) = alone
    /\ (~dropped /\ Live # {}) =>
          LET pieces == InOrder(views)
              m == merge_all(bufs, pieces[1], Tail(pieces))
          IN  m.res = "ok" =>
                  /\ m.out = <<View(pieces[1].buf, 0, Len(expected))>>
                  /\ LET whole == try_unwrap(m.heap, m.out[1]) IN
                     /\ whole.res = "ok"
                     /\ whole.vec = expected
                     /\ \A b \in BufIds : whole.heap[b] = NoBuf

\* The pieces a program still holds merge back, from left to right, unless it has
\* dropped one or has merged two pieces over an empty piece that lies between them
\* (0..1 with 1..2 while 1..1 is held): that piece merges with nothing any more and is
\* to be dropped.
MergeBackInOrder ==
    (~dropped /\ Live # {}) =>
        LET pieces == InOrder(views)
            m == merge_all(bufs, pieces[1], Tail(pieces))
        IN  (m.res = "ok") <=>
                (\A i \in 1 .. Len(pieces) - 1 : pieces[i].end = pieces[i + 1].start)

\* The pieces of a written buffer have been merged back into its one whole view, and
\* try_unwrap gives the elements with the write.
C20_Witness ==
    /\ last.op = "merge"
    /\ last.res = "ok"
    /\ ~dropped
    /\ BagCardinality(views) = 1
    /\ \E i \in 1 .. Len(expected) : expected[i] = 1
    /\ \E v \in Live :
         /\ len(v) = Len(expected)
         /\ try_unwrap(bufs, v).res = "ok"
         /\ try_unwrap(bufs, v).vec = expected

\* C19: when the pieces of a split buffer are handed to workers that each write
\* through their own piece, then under every interleaving of the workers' stores no
\* element is stored to by two workers, and when all workers are done the buffer is
\* what the workers leave when run one after another from the buffer as it was handed
\* over, in every order.
C19_WorkersIndependent ==
    /\ \A k \in DOMAIN written : Cardinality(written[k]) <= 1
    /\ (workers # <<>> /\ AllDone) =>
          \A order \in Orders :
              run_in_order([bufs EXCEPT ![TheBuf].data = expected], order) = bufs

\* Two workers have both finished, each has stored to an element, and they stored
\* different values.
C19_Witness ==
    /\ Len(workers) >= 2
    /\ AllDone
    /\ \E k1, k2 \in DOMAIN written :
         k1 # k2 /\ written[k1] # {} /\ written[k2] # {} /\ written[k1] # written[k2]
    /\ workers[1].x # workers[2].x

====
